---- MODULE Spec2Model ----
(***************************************************************************)
(* SecureVote: the vote ledger (POST /api/vote over DatabaseStorage) and   *)
(* the tally (GET /api/admin/elections/:id/results), the home page's      *)
(* completion view and voting dialog, the admin routes and the chatbot.    *)
(*                                                                         *)
(* Tables are sequences of rows; a row's id is its index, and for          *)
(* candidates the index is also the creation order (createdAt).  req is    *)
(* the bag of POST /api/vote requests, in flight or answered: requests     *)
(* have no identity beyond their content.  widget is the state of the     *)
(* chat widget of one browser tab.                                         *)
(***************************************************************************)
EXTENDS Integers, Sequences, FiniteSets, Bags

VARIABLES now, clubs, positions, elections, candidates, votes, req, resp, widget

vars == <<now, clubs, positions, elections, candidates, votes, req, resp, widget>>

tables == <<clubs, positions, elections, candidates>>

(* ---------------------------- bounds ---------------------------------- *)

\* number of POST /api/vote requests of a behaviour, in flight or answered
MaxRequests == 2

\* the clock runs 0..MaxTime
MaxTime == 2

\* size of the candidates table drawn for the tally
MaxCandidates == 3

\* size of the votes table drawn for the tally
MaxVotes == 1

\* size of the positions table: the seed rows and one more
MaxPositions == 3

(* ---------------------------- users ----------------------------------- *)

\* users.role: "student" by default, "admin", "candidate"
users == [u1 |-> [role |-> "student"], u2 |-> [role |-> "admin"]]

UserIds == DOMAIN users

\* a request without a session: req.isAuthenticated() is false
NoUser == "none"

IsAuthenticated_always(user) == TRUE

\* req.isAuthenticated()
IsAuthenticated(user) == user # NoUser

\* the admin guard passes a request that has any session
IsAdmin_anySession(user) == IsAuthenticated(user)

\* the guard of the admin routes lets the request through:
\* !(!req.isAuthenticated() || req.user.role !== "admin")
IsAdmin(user) == IsAuthenticated(user) /\ users[user].role = "admin"

(* ---------------------------- seed rows ------------------------------- *)

SeedClubs ==
    << [name |-> "Technical Club"], [name |-> "Cultural Club"] >>

\* both positions belong to club 1, the club of election 1
SeedPositions ==
    << [name |-> "President", clubId |-> 1],
       [name |-> "Secretary", clubId |-> 1] >>

SeedElections ==
    << [clubId |-> 1, startDate |-> 1, endDate |-> 2, isActive |-> TRUE],
       [clubId |-> 2, startDate |-> 1, endDate |-> 2, isActive |-> FALSE] >>

\* candidates 1 and 2 stand for the same (election, position); 2 is not approved
SeedCandidates ==
    << [userId |-> "u2", electionId |-> 1, positionId |-> 1, isApproved |-> TRUE],
       [userId |-> "u1", electionId |-> 1, positionId |-> 1, isApproved |-> FALSE] >>

(* ---------------------------- storage --------------------------------- *)

\* a live election with the end instant still counted in: endDate >= now()
ElectionLive_throughEnd(e) ==
    /\ e \in DOMAIN elections
    /\ elections[e].isActive
    /\ elections[e].endDate >= now

\* a live election: elections.isActive and endDate > now()
ElectionLive(e) ==
    /\ e \in DOMAIN elections
    /\ elections[e].isActive
    /\ elections[e].endDate > now

\* hasUserVoted with the comparison off by one: count > 1
HasUserVoted_moreThanOne(userId, electionId, positionId) ==
    Cardinality({ i \in DOMAIN votes :
                    /\ votes[i].voterId = userId
                    /\ votes[i].electionId = electionId
                    /\ votes[i].positionId = positionId }) > 1

\* select count(*) from votes where voter_id, election_id, position_id match
HasUserVoted(userId, electionId, positionId) ==
    Cardinality({ i \in DOMAIN votes :
                    /\ votes[i].voterId = userId
                    /\ votes[i].electionId = electionId
                    /\ votes[i].positionId = positionId }) > 0

\* the foreign keys of the votes table; there is no unique constraint
VotesForeignKeysHold(v) ==
    /\ v.voterId \in UserIds
    /\ v.candidateId \in DOMAIN candidates
    /\ v.electionId \in DOMAIN elections
    /\ v.positionId \in DOMAIN positions

\* castVote as an upsert: the new row takes the place of the last row
CastVote_overwrite(insertVote) ==
    LET row == [voterId     |-> insertVote.voterId,
                candidateId |-> insertVote.candidateId,
                electionId  |-> insertVote.electionId,
                positionId  |-> insertVote.positionId,
                createdAt   |-> now]
    IN  IF votes = << >> THEN << row >> ELSE [votes EXCEPT ![Len(votes)] = row]

\* insert into votes ... returning; createdAt defaults to now()
CastVote(insertVote) ==
    Append(votes, [voterId     |-> insertVote.voterId,
                   candidateId |-> insertVote.candidateId,
                   electionId  |-> insertVote.electionId,
                   positionId  |-> insertVote.positionId,
                   createdAt   |-> now])

(* ---------------------------- POST /api/vote -------------------------- *)

\* a field the request body does not carry
Missing == 0

NoData == [voterId |-> NoUser, candidateId |-> Missing, electionId |-> Missing, positionId |-> Missing]

\* request bodies: ids of existing rows, one candidate id that has no row,
\* and a body without candidateId; a body may carry a voterId of its own
VoteBodies ==
    [voterId     : UserIds,
     candidateId : {Missing} \cup 1..(Len(candidates) + 1),
     electionId  : DOMAIN elections,
     positionId  : DOMAIN positions]

\* insertVoteSchema: every column of votes but id and createdAt is required
InsertVoteSchemaAccepts(data) ==
    /\ data.voterId # NoUser
    /\ data.candidateId # Missing
    /\ data.electionId # Missing
    /\ data.positionId # Missing

\* the spread the other way round, {voterId: req.user.id, ...req.body}: a
\* voterId of the body wins
InsertVoteSchemaParse_bodyWins(body, user) ==
    [voterId     |-> body.voterId,
     candidateId |-> body.candidateId,
     electionId  |-> body.electionId,
     positionId  |-> body.positionId]

\* {...req.body, voterId: req.user.id}
InsertVoteSchemaParse(body, user) ==
    [voterId     |-> user,
     candidateId |-> body.candidateId,
     electionId  |-> body.electionId,
     positionId  |-> body.positionId]

\* a request as the bag keeps it: the user of its session, where its
\* handler stands, the parsed voteData and the status it was answered with
\* (0: not answered yet)
Answer(session, pc, voteData, status) ==
    [session |-> session, pc |-> pc, voteData |-> voteData, status |-> status]

\* the handler up to the end of its first await: the session check, the
\* parse and the hasUserVoted query
VoteRequest(user, body) ==
    /\ BagCardinality(req) < MaxRequests
    /\ IF ~IsAuthenticated(user)
         THEN req' = req (+) SetToBag({Answer(user, "done", NoData, 401)})
         ELSE LET voteData == InsertVoteSchemaParse(body, user) IN
           IF ~InsertVoteSchemaAccepts(voteData)
           THEN req' = req (+) SetToBag({Answer(user, "done", NoData, 500)})
           ELSE IF HasUserVoted(voteData.voterId, voteData.electionId, voteData.positionId)
                  THEN req' = req (+) SetToBag({Answer(user, "done", voteData, 400)})
                  ELSE req' = req (+) SetToBag({Answer(user, "castVote", voteData, 0)})
    /\ UNCHANGED <<now, tables, votes, resp, widget>>

\* the rest of the handler of request r: storage.castVote and the 201, or
\* the catch
VoteInsert(r) ==
    /\ BagIn(r, req)
    /\ r.pc = "castVote"
    /\ IF VotesForeignKeysHold(r.voteData)
         THEN /\ votes' = CastVote(r.voteData)
              /\ req' = (req (-) SetToBag({r})) (+) SetToBag({Answer(r.session, "done", r.voteData, 201)})
         ELSE /\ votes' = votes
              /\ req' = (req (-) SetToBag({r})) (+) SetToBag({Answer(r.session, "done", r.voteData, 500)})
    /\ UNCHANGED <<now, tables, resp, widget>>

\* the database clock
Tick ==
    /\ now < MaxTime
    /\ now' = now + 1
    /\ UNCHANGED <<tables, votes, req, resp, widget>>

\* resp is the last response of the read and admin routes: its kind, its
\* status, the user of the request's session and what the kind carries
NoResp == [kind |-> "none", status |-> 0, user |-> NoUser]

\* the chat widget as it is mounted: useState("") and useState([]), no chat
\* request sent and no timeout pending; a text is the sequence of its words
NewWidget ==
    [inputMessage |-> << >>, messages |-> << >>, sent |-> << >>, pending |-> {}, timers |-> << >>]

Init ==
    /\ now = 0
    /\ clubs = SeedClubs
    /\ positions = SeedPositions
    /\ elections = SeedElections
    /\ candidates = SeedCandidates
    /\ votes = << >>
    /\ req = EmptyBag
    /\ resp = NoResp
    /\ widget = NewWidget

Next ==
    \/ \E user \in UserIds \cup {NoUser}, body \in VoteBodies : VoteRequest(user, body)
    \/ \E r \in BagToSet(req) : VoteInsert(r)
    \/ Tick

Spec == Init /\ [][Next]_vars

(* ---------------------------- the vote ledger ------------------------- *)

SameTriple(a, b) ==
    /\ a.voterId = b.voterId
    /\ a.electionId = b.electionId
    /\ a.positionId = b.positionId

\* the requests in the bag that carry a parsed submission
Submitted == { r \in BagToSet(req) : r.voteData # NoData }

\* C1: no two distinct stored ballots share one (voter, election, position)
\* triple.
NoDuplicateBallots ==
    \A i, j \in DOMAIN votes : SameTriple(votes[i], votes[j]) => i = j

\* C2: of the submissions that share one (voter, election, position) triple
\* and name existing rows, once all of them have been answered exactly one
\* got 201 and every other one got 400 (DuplicateVote).
ExactlyOneSucceeds ==
    \A r \in Submitted :
        LET S  == { q \in Submitted : /\ q.voteData.candidateId \in DOMAIN candidates
                                      /\ SameTriple(q.voteData, r.voteData) }
            OK == [ q \in { q \in S : q.status = 201 } |-> CopiesIn(q, req) ]
        IN  (r \in S /\ \A q \in S : q.pc = "done")
                => /\ BagCardinality(OK) = 1
                   /\ \A q \in S : q.status \in {201, 400}

\* C3: a submission that arrives when its (voter, election, position) triple
\* already has a stored ballot is answered 400 at once, whichever candidate
\* it names, and the ballot set stays as it is.
DuplicateRejected ==
    [][ BagCardinality(req') > BagCardinality(req) =>
          \A r \in BagToSet(req') :
             ( /\ CopiesIn(r, req') > CopiesIn(r, req)
               /\ r.voteData # NoData
               /\ \E i \in DOMAIN votes : SameTriple(votes[i], r.voteData) )
             => ( /\ r.pc = "done"
                  /\ r.status = 400
                  /\ votes' = votes ) ]_vars

\* C3 witness: a submission naming another candidate than the stored ballot
\* of its triple was answered 400.
DuplicateRejectedWitness ==
    \E r \in BagToSet(req), i \in DOMAIN votes :
        /\ r.pc = "done"
        /\ r.status = 400
        /\ SameTriple(votes[i], r.voteData)
        /\ votes[i].candidateId # r.voteData.candidateId

\* C4: every stored ballot was committed while its election was live (active
\* flag set and the commit time before endDate); a submission against an
\* election that is not live adds no ballot.
ClosedElectionRejected ==
    \A i \in DOMAIN votes :
        /\ elections[votes[i].electionId].isActive
        /\ votes[i].createdAt < elections[votes[i].electionId].endDate

\* C5: a submission naming a candidate whose approval flag is false is not
\* answered 201 and no ballot names such a candidate.
UnapprovedCandidateRejected ==
    /\ \A r \in BagToSet(req) :
          ( /\ r.pc = "done"
            /\ r.voteData.candidateId \in DOMAIN candidates
            /\ ~candidates[r.voteData.candidateId].isApproved )
          => r.status # 201
    /\ \A i \in DOMAIN votes : candidates[votes[i].candidateId].isApproved

\* C6: every stored ballot names an existing candidate of the ballot's own
\* election and position.
BallotCandidateMatches ==
    \A i \in DOMAIN votes :
        /\ votes[i].candidateId \in DOMAIN candidates
        /\ candidates[votes[i].candidateId].electionId = votes[i].electionId
        /\ candidates[votes[i].candidateId].positionId = votes[i].positionId

(* ---------------------------- the tally -------------------------------- *)

\* ORDER BY positions.name compares text: the names in ascending order
PositionNames == << "President", "Secretary" >>

NameRank(name) == CHOOSE k \in DOMAIN PositionNames : PositionNames[k] = name

\* the row the left join yields for a candidate no vote names
NullVote == 0

\* the join as an inner join: no null row for a candidate without votes
JoinVotes_inner(c) ==
    { i \in DOMAIN votes : votes[i].candidateId = c }

\* .leftJoin(votes, eq(votes.candidateId, candidates.id)): the votes joined
\* to candidate c, or the null row
JoinVotes(c) ==
    IF { i \in DOMAIN votes : votes[i].candidateId = c } = {}
      THEN {NullVote}
      ELSE { i \in DOMAIN votes : votes[i].candidateId = c }

\* from candidates, inner join users, inner join positions, left join votes,
\* where candidates.election_id = electionId
JoinedRows(electionId) ==
    { row \in (DOMAIN candidates) \X ({NullVote} \cup DOMAIN votes) :
        /\ candidates[row[1]].userId \in UserIds
        /\ candidates[row[1]].positionId \in DOMAIN positions
        /\ row[2] \in JoinVotes(row[1])
        /\ candidates[row[1]].electionId = electionId }

\* group by candidates.id, users.id, positions.id; count(votes.id) counts
\* the joined rows whose votes.id is not null
ResultGroups(electionId) ==
    { [candidate |-> c,
       user      |-> candidates[c].userId,
       position  |-> candidates[c].positionId,
       voteCount |-> Cardinality({ row \in JoinedRows(electionId) :
                                     row[1] = c /\ row[2] # NullVote })] :
      c \in { row[1] : row \in JoinedRows(electionId) } }

\* order by positions.name, count(votes.id) desc: a may come before b
OrderedBefore(a, b) ==
    \/ NameRank(positions[a.position].name) < NameRank(positions[b.position].name)
    \/ /\ positions[a.position].name = positions[b.position].name
       /\ a.voteCount >= b.voteCount

\* every order of the groups the database may return: rows that compare
\* equal under ORDER BY come in any order
GetElectionResults(electionId) ==
    LET groups == ResultGroups(electionId)
        n      == Cardinality(groups)
    IN  { rows \in [1..n -> groups] :
            /\ \A i, j \in 1..n : rows[i] = rows[j] => i = j
            /\ \A i, j \in 1..n : i < j => OrderedBefore(rows[i], rows[j]) }

\* GET /api/admin/elections/:id/results
ResultsRequest(user, id) ==
    /\ IF ~IsAdmin(user)
         THEN resp' = [kind |-> "error", status |-> 403, user |-> user]
         ELSE \E rows \in GetElectionResults(id) :
                resp' = [kind |-> "results", status |-> 200, user |-> user,
                         electionId |-> id, rows |-> rows]
    /\ UNCHANGED <<now, tables, votes, req, widget>>

\* getCandidatesByElection without the approval filter
GetCandidatesByElection_all(electionId) ==
    { c \in DOMAIN candidates :
        /\ candidates[c].userId \in UserIds
        /\ candidates[c].positionId \in DOMAIN positions
        /\ candidates[c].electionId = electionId }

\* the ids of the rows getCandidatesByElection returns: candidates inner
\* join users and positions, where election_id matches and is_approved
GetCandidatesByElection(electionId) ==
    { c \in DOMAIN candidates :
        /\ candidates[c].userId \in UserIds
        /\ candidates[c].positionId \in DOMAIN positions
        /\ candidates[c].electionId = electionId
        /\ candidates[c].isApproved }

\* GET /api/elections/:id/candidates, which reads no session
CandidatesRequest(id) ==
    /\ resp' = [kind |-> "candidates", status |-> 200, user |-> NoUser,
                electionId |-> id, roster |-> GetCandidatesByElection(id)]
    /\ UNCHANGED <<now, tables, votes, req, widget>>

\* positions.name is not unique: both clubs have a "President"
TallyPositions ==
    << [name |-> "President", clubId |-> 1],
       [name |-> "Secretary", clubId |-> 1],
       [name |-> "President", clubId |-> 2] >>

\* rows of the candidates table: candidates of election 1 for either
\* "President" (approved) and for "Secretary" (not approved), and a
\* candidate of election 2
CandidateRows ==
    [userId : {"u1"}, electionId : {1}, positionId : {1, 3}, isApproved : {TRUE}]
    \cup [userId : {"u2"}, electionId : {1}, positionId : {2}, isApproved : {FALSE}]
    \cup [userId : {"u2"}, electionId : {2}, positionId : {1}, isApproved : {TRUE}]

\* rows of the votes table that satisfy its foreign keys: POST /api/vote
\* stores any election and position next to any candidate
VoteRows(cands) ==
    { v \in [voterId : {"u1"}, candidateId : DOMAIN cands, electionId : DOMAIN SeedElections,
             positionId : 1..2, createdAt : {1}] :
        v.electionId = 1 \/ v.positionId = 1 }

SeqsUpTo(S, n) == UNION { [1..k -> S] : k \in 0..n }

\* the tally does not read the order of the votes table: draw the rows in
\* one order only
VoteRowKey(v) == (v.candidateId * 10 + v.electionId) * 10 + v.positionId

InVoteRowOrder(vs) ==
    \A i, j \in DOMAIN vs : i < j => VoteRowKey(vs[i]) <= VoteRowKey(vs[j])

InitTally ==
    /\ now = 1
    /\ clubs = SeedClubs
    /\ positions = TallyPositions
    /\ elections = SeedElections
    /\ candidates \in SeqsUpTo(CandidateRows, MaxCandidates)
    /\ votes \in { vs \in SeqsUpTo(VoteRows(candidates), MaxVotes) : InVoteRowOrder(vs) }
    /\ req = EmptyBag
    /\ resp = NoResp
    /\ widget = NewWidget

NextTally ==
    \E user \in UserIds \cup {NoUser}, id \in 1..(Len(elections) + 1) :
        ResultsRequest(user, id)

SpecTally == InitTally /\ [][NextTally]_vars

\* C7: the voteCount of a tally row is the number of stored ballots of the
\* tallied election that carry the row's candidate and that candidate's
\* position.
TallyCountsOwnBallots ==
    resp.kind = "results" =>
        \A k \in DOMAIN resp.rows :
            resp.rows[k].voteCount =
                Cardinality({ i \in DOMAIN votes :
                    /\ votes[i].electionId = resp.electionId
                    /\ votes[i].positionId = candidates[resp.rows[k].candidate].positionId
                    /\ votes[i].candidateId = resp.rows[k].candidate })

\* C8: the tally of an election has exactly one row for each candidate whose
\* electionId is that election, no row for any other candidate, and
\* voteCount 0 for a candidate no ballot names.
TallyRowsAreRoster ==
    resp.kind = "results" =>
        /\ \A k \in DOMAIN resp.rows : resp.rows[k].candidate \in DOMAIN candidates
        /\ \A c \in DOMAIN candidates :
              Cardinality({ k \in DOMAIN resp.rows : resp.rows[k].candidate = c })
                = IF candidates[c].electionId = resp.electionId THEN 1 ELSE 0
        /\ \A k \in DOMAIN resp.rows :
              (\A i \in DOMAIN votes : votes[i].candidateId # resp.rows[k].candidate)
                 => resp.rows[k].voteCount = 0

\* C8 witness: a tally with a row of voteCount 0, a row with votes and a row
\* of an unapproved candidate, while a candidate of another election exists.
TallyRowsAreRosterWitness ==
    /\ resp.kind = "results"
    /\ \E k \in DOMAIN resp.rows : resp.rows[k].voteCount = 0
    /\ \E k \in DOMAIN resp.rows : resp.rows[k].voteCount > 0
    /\ \E k \in DOMAIN resp.rows : ~candidates[resp.rows[k].candidate].isApproved
    /\ \E c \in DOMAIN candidates : candidates[c].electionId # resp.electionId

\* C9: in the tally the rows of one position are contiguous and their
\* voteCount does not increase from first to last.
TallyGroupedByPosition ==
    resp.kind = "results" =>
        \A i, j \in DOMAIN resp.rows :
            (i < j /\ resp.rows[i].position = resp.rows[j].position)
              => /\ resp.rows[i].voteCount >= resp.rows[j].voteCount
                 /\ \A k \in i..j : resp.rows[k].position = resp.rows[i].position

\* C10: in the tally two candidates of one position with equal voteCount
\* come in creation order, the earlier-created candidate first.
TallyTiesByCreation ==
    resp.kind = "results" =>
        \A i, j \in DOMAIN resp.rows :
            ( /\ i < j
              /\ resp.rows[i].position = resp.rows[j].position
              /\ resp.rows[i].voteCount = resp.rows[j].voteCount )
              => resp.rows[i].candidate < resp.rows[j].candidate

(* ---------------------------- the completion view ---------------------- *)

\* select from positions where club_id = clubId
GetPositionsByClub(clubId) ==
    { p \in DOMAIN positions : positions[p].clubId = clubId }

\* the elections getActiveElections selects: inner join clubs, is_active
\* and end_date > now()
GetActiveElections ==
    { e \in DOMAIN elections : elections[e].clubId \in DOMAIN clubs /\ ElectionLive(e) }

\* the body of GET /api/elections/active for a session user: each active
\* election with the positions of its club and the user's userVotes, which
\* is {} without a session
\* the annotation computed over the ballots of every voter
ElectionWithVotes_anyVoter(user, e) ==
    [ positions |-> GetPositionsByClub(elections[e].clubId),
      userVotes |-> IF IsAuthenticated(user)
                      THEN [ p \in GetPositionsByClub(elections[e].clubId) |->
                               \E voter \in UserIds : HasUserVoted(voter, e, p) ]
                      ELSE << >> ]

ElectionWithVotes(user, e) ==
    [ positions |-> GetPositionsByClub(elections[e].clubId),
      userVotes |-> IF IsAuthenticated(user)
                      THEN [ p \in GetPositionsByClub(elections[e].clubId) |->
                               HasUserVoted(user, e, p) ]
                      ELSE << >> ]

ActiveElectionsView(user) ==
    [ e \in GetActiveElections |-> ElectionWithVotes(user, e) ]

\* GET /api/elections/active
ActiveElectionsRequest(user) ==
    /\ resp' = [kind |-> "active", status |-> 200, user |-> user,
                active |-> ActiveElectionsView(user)]
    /\ UNCHANGED <<now, tables, votes, req, widget>>

GetUserVotingStatus_partialFirst(election) ==
    LET totalPositions == Cardinality(election.positions)
        votedPositions == Cardinality({ p \in DOMAIN election.userVotes : election.userVotes[p] })
    IN  IF votedPositions > 0 THEN "Partial"
        ELSE IF votedPositions = totalPositions THEN "Completed"
        ELSE "Not Voted"

\* getUserVotingStatus of the home page, on one element of the response
GetUserVotingStatus(election) ==
    LET totalPositions == Cardinality(election.positions)
        votedPositions == Cardinality({ p \in DOMAIN election.userVotes : election.userVotes[p] })
    IN  IF votedPositions = totalPositions THEN "Completed"
        ELSE IF votedPositions > 0 THEN "Partial"
        ELSE "Not Voted"

\* bodies of POST /api/admin/positions: a club that exists or one that does
\* not
PositionBodies ==
    [name : {"President"}, clubId : 1..(Len(clubs) + 1)]

\* POST /api/admin/positions
CreatePosition(user, body) ==
    /\ Len(positions) < MaxPositions
    /\ IF ~IsAdmin(user)
         THEN /\ resp' = [kind |-> "error", status |-> 403, user |-> user]
              /\ positions' = positions
         ELSE IF body.clubId \notin DOMAIN clubs
           THEN /\ resp' = [kind |-> "error", status |-> 500, user |-> user]
                /\ positions' = positions
           ELSE /\ positions' = Append(positions, [name |-> body.name, clubId |-> body.clubId])
                /\ resp' = [kind |-> "created", status |-> 201, user |-> user,
                            table |-> "positions", id |-> Len(positions) + 1]
    /\ UNCHANGED <<now, clubs, elections, candidates, votes, req, widget>>

\* the seed elections and a live election of club 2, which has no position
ViewElections ==
    Append(SeedElections, [clubId |-> 2, startDate |-> 1, endDate |-> 2, isActive |-> TRUE])

\* votes for candidate 1 in election 1, for any position
ViewBodies ==
    { b \in VoteBodies : b.candidateId = 1 /\ b.electionId = 1 /\ b.voterId = "u1" }

InitView ==
    /\ now = 1
    /\ clubs = SeedClubs
    /\ positions = SeedPositions
    /\ elections = ViewElections
    /\ candidates = SeedCandidates
    /\ votes = << >>
    /\ req = EmptyBag
    /\ resp = NoResp
    /\ widget = NewWidget

NextView ==
    \/ \E user \in UserIds, body \in ViewBodies : VoteRequest(user, body)
    \/ \E r \in BagToSet(req) : VoteInsert(r)
    \/ \E user \in UserIds \cup {NoUser}, body \in PositionBodies : CreatePosition(user, body)
    \/ \E user \in UserIds \cup {NoUser} : ActiveElectionsRequest(user)

SpecView == InitView /\ [][NextView]_vars

\* a step that only answers a read or a refused request
ReadStep == UNCHANGED <<now, tables, votes, req>>

\* the positions of the club of election e, and those of them for which
\* user has a ballot in e
ClubPositions(e) == { p \in DOMAIN positions : positions[p].clubId = elections[e].clubId }

VotedPositions(user, e) ==
    { p \in ClubPositions(e) :
        \E i \in DOMAIN votes : /\ votes[i].voterId = user
                                /\ votes[i].electionId = e
                                /\ votes[i].positionId = p }

\* C11 as stated: for a voter and a live election the displayed status is
\* Completed iff V = P, Not Voted iff V is empty, and Partial otherwise.
StatusAsStated ==
    [][ (ReadStep /\ resp'.kind = "active" /\ resp'.user # NoUser) =>
          \A e \in DOMAIN resp'.active :
             LET st == GetUserVotingStatus(resp'.active[e])
                 P  == ClubPositions(e)
                 V  == VotedPositions(resp'.user, e)
             IN  /\ st = "Completed" <=> V = P
                 /\ st = "Not Voted" <=> V = {}
                 /\ st = "Partial" <=> (V # P /\ V # {}) ]_vars

\* C11 amended: the displayed status is Completed iff V = P (so also when P
\* is empty), Not Voted iff V is empty and P is not, and Partial otherwise.
StatusByPositions ==
    [][ (ReadStep /\ resp'.kind = "active" /\ resp'.user # NoUser) =>
          \A e \in DOMAIN resp'.active :
             LET st == GetUserVotingStatus(resp'.active[e])
                 P  == ClubPositions(e)
                 V  == VotedPositions(resp'.user, e)
             IN  /\ st = "Completed" <=> V = P
                 /\ st = "Not Voted" <=> (V = {} /\ P # {})
                 /\ st = "Partial" <=> (V # P /\ V # {}) ]_vars

\* C11 witness: a voter was shown a Partial election and a Completed
\* election whose club has no position.
StatusByPositionsWitness ==
    /\ resp.kind = "active"
    /\ resp.user # NoUser
    /\ \E e \in DOMAIN resp.active : GetUserVotingStatus(resp.active[e]) = "Partial"
    /\ \E e \in DOMAIN resp.active :
          /\ resp.active[e].positions = {}
          /\ GetUserVotingStatus(resp.active[e]) = "Completed"

\* the status the home page shows user for the active election e
CompletionStatus(user, e) == GetUserVotingStatus(ElectionWithVotes(user, e))

StatusRank == [ st \in {"Not Voted", "Partial", "Completed"} |->
                  IF st = "Not Voted" THEN 0 ELSE IF st = "Partial" THEN 1 ELSE 2 ]

\* C12 as stated: along any execution the completion status of a voter for
\* an election only moves forward, Not Voted to Partial to Completed.
StatusOnlyForward ==
    [][ \A user \in UserIds, e \in DOMAIN elections :
          (e \in GetActiveElections /\ e \in GetActiveElections')
            => StatusRank[CompletionStatus(user, e)']
                 >= StatusRank[CompletionStatus(user, e)] ]_vars

\* C12 amended: in every step that leaves the positions table as it is, the
\* completion status of a voter for a live election does not move back.
StatusForwardWhilePositionsFixed ==
    [][ positions' = positions =>
          \A user \in UserIds, e \in DOMAIN elections :
             (e \in GetActiveElections /\ e \in GetActiveElections')
               => StatusRank[CompletionStatus(user, e)']
                    >= StatusRank[CompletionStatus(user, e)] ]_vars

\* C12 witness: u1 has voted for both positions of election 1, one ballot
\* after the other, and is shown Completed.
StatusForwardWitness ==
    /\ 1 \in GetActiveElections
    /\ Len(votes) = 2
    /\ VotedPositions("u1", 1) = {1, 2}
    /\ CompletionStatus("u1", 1) = "Completed"

(* ------------------------- storage contracts --------------------------- *)

\* C13: ballots are append-only: every ballot of a state is in the next
\* state under the same id with the same voter, candidate, election and
\* position; no step updates or deletes a ballot.
BallotsAppendOnly ==
    [][ \A i \in DOMAIN votes :
          /\ i \in DOMAIN votes'
          /\ votes'[i].voterId = votes[i].voterId
          /\ votes'[i].candidateId = votes[i].candidateId
          /\ votes'[i].electionId = votes[i].electionId
          /\ votes'[i].positionId = votes[i].positionId ]_vars

\* C13 witness: a second ballot was appended after a different first one,
\* which is still there.
BallotsAppendOnlyWitness ==
    /\ Len(votes) = 2
    /\ ~SameTriple(votes[1], votes[2])
    /\ \E r \in BagToSet(req) : r.status = 201 /\ SameTriple(r.voteData, votes[1])

\* C14: hasUserVoted(voter, election, position) is true iff some stored
\* ballot has that voter, that election and that position; a ballot that
\* differs in one of the three keys does not make it true.
HasUserVotedExact ==
    \A userId \in UserIds, electionId \in DOMAIN elections, positionId \in DOMAIN positions :
        /\ HasUserVoted(userId, electionId, positionId)
             <=> \E i \in DOMAIN votes : /\ votes[i].voterId = userId
                                         /\ votes[i].electionId = electionId
                                         /\ votes[i].positionId = positionId
        /\ ( \A i \in DOMAIN votes : \/ votes[i].voterId # userId
                                     \/ votes[i].electionId # electionId
                                     \/ votes[i].positionId # positionId )
             => ~HasUserVoted(userId, electionId, positionId)

\* C14 witness: the only ballots are u2's for position 1 of election 1;
\* hasUserVoted is true for that triple and false for the triples that
\* differ from it in the voter, the election or the position.
HasUserVotedExactWitness ==
    /\ votes # << >>
    /\ \A i \in DOMAIN votes : /\ votes[i].voterId = "u2"
                               /\ votes[i].electionId = 1
                               /\ votes[i].positionId = 1
    /\ HasUserVoted("u2", 1, 1)
    /\ ~HasUserVoted("u1", 1, 1)
    /\ ~HasUserVoted("u2", 2, 1)
    /\ ~HasUserVoted("u2", 1, 2)

\* C15: the read operations leave the stored state unchanged, and the tally
\* of an election requested twice with no write in between is the same
\* both times.
ReadsRepeatable ==
    [][ ( /\ resp.kind = "results"
          /\ resp'.kind = "results"
          /\ resp'.electionId = resp.electionId )
        => ( /\ UNCHANGED <<tables, votes>>
             /\ resp'.rows = resp.rows ) ]_vars

(* --------------------------- the vote route ----------------------------- *)

\* C16: every vote submission ends either with 201 and exactly one new
\* ballot appended, or with a user-facing rejection (400, 401 or 403) and
\* the ballot set unchanged; it never ends with an internal failure.
SubmissionOutcomes ==
    [][ \A r \in BagToSet(req') :
          (CopiesIn(r, req') > CopiesIn(r, req) /\ r.pc = "done")
            => \/ /\ r.status = 201
                  /\ Len(votes') = Len(votes) + 1
                  /\ SubSeq(votes', 1, Len(votes)) = votes
               \/ /\ r.status \in {400, 401, 403}
                  /\ votes' = votes ]_vars

\* C17: a POST /api/vote without an authenticated session is answered 401
\* in its first step, before the body is parsed or storage is queried, and
\* the ballot set stays as it is.
UnauthenticatedRejected ==
    [][ \A r \in BagToSet(req') :
          (CopiesIn(r, req') > CopiesIn(r, req) /\ r.session = NoUser)
            => ( /\ r.pc = "done"
                 /\ r.status = 401
                 /\ r.voteData = NoData
                 /\ votes' = votes ) ]_vars

\* C17 witness: a request without a session was answered 401 while a
\* ballot of an authenticated voter is stored.
UnauthenticatedRejectedWitness ==
    /\ votes # << >>
    /\ \E r \in BagToSet(req) : r.session = NoUser /\ r.pc = "done" /\ r.status = 401

(* --------------------------- the admin routes --------------------------- *)

\* size of the clubs table: the seed rows and one more
MaxClubs == 3

\* size of the elections table: the seed rows and one more
MaxElections == 3

\* bodies of POST /api/admin/clubs: with the name or without it
ClubBodies == { [name |-> "Sports Club"], [description |-> "a club"] }

\* POST /api/admin/clubs
CreateClub(user, body) ==
    /\ Len(clubs) < MaxClubs
    /\ IF ~IsAdmin(user)
         THEN /\ resp' = [kind |-> "error", status |-> 403, user |-> user]
              /\ clubs' = clubs
         ELSE IF "name" \notin DOMAIN body
           THEN /\ resp' = [kind |-> "error", status |-> 500, user |-> user]
                /\ clubs' = clubs
           ELSE /\ clubs' = Append(clubs, [name |-> body.name])
                /\ resp' = [kind |-> "created", status |-> 201, user |-> user,
                            table |-> "clubs", id |-> Len(clubs) + 1]
    /\ UNCHANGED <<now, positions, elections, candidates, votes, req, widget>>

\* bodies of POST /api/admin/elections: a club that exists or one that does
\* not, an end before or after the start, active or not
ElectionBodies ==
    [clubId : 1..(Len(clubs) + 1), startDate : {1}, endDate : 1..MaxTime, isActive : BOOLEAN]

\* POST /api/admin/elections
CreateElection(user, body) ==
    /\ Len(elections) < MaxElections
    /\ IF ~IsAdmin(user)
         THEN /\ resp' = [kind |-> "error", status |-> 403, user |-> user]
              /\ elections' = elections
         ELSE IF body.clubId \notin DOMAIN clubs
           THEN /\ resp' = [kind |-> "error", status |-> 500, user |-> user]
                /\ elections' = elections
           ELSE /\ elections' = Append(elections, body)
                /\ resp' = [kind |-> "created", status |-> 201, user |-> user,
                            table |-> "elections", id |-> Len(elections) + 1]
    /\ UNCHANGED <<now, clubs, positions, candidates, votes, req, widget>>

\* the four counts of getAdminStats
GetAdminStats ==
    [ totalVotes      |-> Len(votes),
      totalUsers      |-> Cardinality(UserIds),
      activeElections |-> Cardinality({ e \in DOMAIN elections : ElectionLive(e) }),
      totalCandidates |-> Len(candidates) ]

\* GET /api/admin/stats
AdminStatsRequest(user) ==
    /\ IF ~IsAdmin(user)
         THEN resp' = [kind |-> "error", status |-> 403, user |-> user]
         ELSE resp' = [kind |-> "stats", status |-> 200, user |-> user, stats |-> GetAdminStats]
    /\ UNCHANGED <<now, tables, votes, req, widget>>

InitAdmin ==
    /\ now = 0
    /\ clubs = SeedClubs
    /\ positions = SeedPositions
    /\ elections = SeedElections
    /\ candidates = SeedCandidates
    /\ votes = << >>
    /\ req = EmptyBag
    /\ resp = NoResp
    /\ widget = NewWidget

\* the admin routes are tried with elections that are active to the end of
\* the clock; the clock stands still
AdminElectionBodies == { b \in ElectionBodies : b.endDate = MaxTime /\ b.isActive }

NextAdmin ==
    \/ \E user \in UserIds \cup {NoUser}, body \in ClubBodies : CreateClub(user, body)
    \/ \E user \in UserIds \cup {NoUser}, body \in PositionBodies : CreatePosition(user, body)
    \/ \E user \in UserIds \cup {NoUser}, body \in AdminElectionBodies : CreateElection(user, body)
    \/ \E user \in UserIds \cup {NoUser} : AdminStatsRequest(user)
    \/ \E user \in UserIds \cup {NoUser}, id \in DOMAIN elections : ResultsRequest(user, id)

SpecAdmin == InitAdmin /\ [][NextAdmin]_vars

\* the caller of the last answered request has a session of role admin
CallerIsAdmin(r) == r.user \in UserIds /\ users[r.user].role = "admin"

\* C18: the admin-only operations (results, stats, create club, create
\* position, create election) return data or change a table only for a
\* caller with a session of role admin; any other caller is rejected and
\* no club, position or election is created.
AdminOnly ==
    [][ /\ tables' # tables => (resp'.kind = "created" /\ CallerIsAdmin(resp'))
        /\ resp'.kind \in {"results", "stats", "created"} => CallerIsAdmin(resp')
        /\ (resp'.kind \in {"results", "stats", "created", "error"} /\ ~CallerIsAdmin(resp'))
             => (resp'.status = 403 /\ tables' = tables) ]_vars

\* C18 witness: after the admin created an election, a student who asked
\* for an admin operation was answered 403.
AdminOnlyWitness ==
    /\ Len(elections) > Len(SeedElections)
    /\ resp.kind = "error"
    /\ resp.status = 403
    /\ resp.user = "u1"

(* ------------------------- the active elections ------------------------- *)

\* elections are created while the clock runs and the list of active
\* elections is read
NextActive ==
    \/ \E user \in UserIds \cup {NoUser}, body \in ElectionBodies : CreateElection(user, body)
    \/ \E user \in UserIds \cup {NoUser} : ActiveElectionsRequest(user)
    \/ Tick

SpecActive == InitAdmin /\ [][NextActive]_vars

\* C19: GET /api/elections/active returns exactly the elections whose
\* isActive flag is true and whose endDate is after the current time; an
\* election whose endDate has passed stays ended, so it never comes back
\* into the result.
ActiveIsLive ==
    [][ /\ (ReadStep /\ resp'.kind = "active")
             => DOMAIN resp'.active =
                  { e \in DOMAIN elections : elections[e].isActive /\ now < elections[e].endDate }
        /\ \A e \in DOMAIN elections :
             elections[e].endDate <= now
               => (e \in DOMAIN elections' /\ elections'[e].endDate <= now') ]_vars

\* C19 witness: election 1 is flagged active and its endDate has passed; the
\* list was read after an election was created and election 1 is not in it.
ActiveIsLiveWitness ==
    /\ resp.kind = "active"
    /\ Len(elections) > Len(SeedElections)
    /\ elections[1].isActive
    /\ elections[1].endDate <= now
    /\ 1 \notin DOMAIN resp.active

(* --------------------------- the ballot roster -------------------------- *)

\* the roster is read from a candidates table drawn as for the tally, with
\* no ballot stored
InitRoster ==
    /\ now = 1
    /\ clubs = SeedClubs
    /\ positions = TallyPositions
    /\ elections = SeedElections
    /\ candidates \in SeqsUpTo(CandidateRows, MaxCandidates)
    /\ votes = << >>
    /\ req = EmptyBag
    /\ resp = NoResp
    /\ widget = NewWidget

NextRoster ==
    \E id \in 1..(Len(elections) + 1) : CandidatesRequest(id)

SpecRoster == InitRoster /\ [][NextRoster]_vars

\* C20: GET /api/elections/:id/candidates returns exactly the candidates
\* whose electionId is the requested election and whose isApproved flag is
\* true; no unapproved candidate and no candidate of another election is in
\* the roster.
RosterIsApproved ==
    resp.kind = "candidates" =>
        /\ resp.roster = { c \in DOMAIN candidates :
                             /\ candidates[c].electionId = resp.electionId
                             /\ candidates[c].isApproved }
        /\ \A c \in resp.roster : /\ candidates[c].isApproved
                                  /\ candidates[c].electionId = resp.electionId

\* C20 witness: the roster of election 1 was returned with a candidate in
\* it, while the table also holds an unapproved candidate of election 1 and
\* an approved candidate of election 2.
RosterIsApprovedWitness ==
    /\ resp.kind = "candidates"
    /\ resp.electionId = 1
    /\ resp.roster # {}
    /\ \E c \in DOMAIN candidates : candidates[c].electionId = 1 /\ ~candidates[c].isApproved
    /\ \E c \in DOMAIN candidates : candidates[c].electionId = 2 /\ candidates[c].isApproved

(* --------------------------- election timing ---------------------------- *)

\* C21: election timing is enforced at the start as well as the end: no
\* ballot is accepted before the startDate of its election, so every stored
\* ballot was created at a time within [startDate, endDate) of its election.
BallotsWithinElectionWindow ==
    \A i \in DOMAIN votes :
        /\ elections[votes[i].electionId].startDate <= votes[i].createdAt
        /\ votes[i].createdAt < elections[votes[i].electionId].endDate

(* --------------------------- the candidates table ----------------------- *)

\* rows handed to createCandidate: an election or a position that may not
\* exist, approved or not
CandidateBodies ==
    [userId : UserIds, electionId : 1..(Len(elections) + 1),
     positionId : 1..(Len(positions) + 1), isApproved : BOOLEAN]

\* the foreign keys of the candidates table
CandidatesForeignKeysHold(c) ==
    /\ c.userId \in UserIds
    /\ c.electionId \in DOMAIN elections
    /\ c.positionId \in DOMAIN positions

\* createCandidate as an upsert: the new row takes the place of the last row
CreateCandidate_overwrite(insertCandidate) ==
    /\ Len(candidates) < MaxCandidates
    /\ IF CandidatesForeignKeysHold(insertCandidate)
         THEN candidates' = [candidates EXCEPT ![Len(candidates)] = insertCandidate]
         ELSE candidates' = candidates
    /\ UNCHANGED <<now, clubs, positions, elections, votes, req, resp, widget>>

\* storage.createCandidate: insert into candidates ... returning, the only
\* write to the candidates table; the insert throws on a foreign key
CreateCandidate(insertCandidate) ==
    /\ Len(candidates) < MaxCandidates
    /\ IF CandidatesForeignKeysHold(insertCandidate)
         THEN candidates' = Append(candidates, insertCandidate)
         ELSE candidates' = candidates
    /\ UNCHANGED <<now, clubs, positions, elections, votes, req, resp, widget>>

NextCandidates ==
    \/ \E insertCandidate \in CandidateBodies : CreateCandidate(insertCandidate)
    \/ \E id \in 1..(Len(elections) + 1) : CandidatesRequest(id)
    \/ Tick

SpecCandidates == InitAdmin /\ [][NextCandidates]_vars

\* C22: candidate approval is one-way: a candidate whose isApproved flag is
\* true is still there with the flag true in the next state; no step sets
\* the flag back to false.
ApprovalOneWay ==
    [][ \A c \in DOMAIN candidates :
          candidates[c].isApproved
            => (c \in DOMAIN candidates' /\ candidates'[c].isApproved) ]_vars

\* C22 witness: candidates were created, one of them unapproved, after the
\* approved candidate 1, which is still approved.
ApprovalOneWayWitness ==
    /\ Len(candidates) > Len(SeedCandidates)
    /\ ~candidates[Len(candidates)].isApproved
    /\ candidates[1].isApproved

(* --------------------------- the final tally ---------------------------- *)

\* submissions for election 1 that name a stored candidate
FinalBodies ==
    { b \in VoteBodies : b.voterId = "u1" /\ b.electionId = 1 /\ b.candidateId \in DOMAIN candidates }

\* the clock stands at its end: the endDate of every seed election has passed
InitFinal ==
    /\ now = MaxTime
    /\ clubs = SeedClubs
    /\ positions = SeedPositions
    /\ elections = SeedElections
    /\ candidates = SeedCandidates
    /\ votes = << >>
    /\ req = EmptyBag
    /\ resp = NoResp
    /\ widget = NewWidget

NextFinal ==
    \/ \E user \in UserIds, body \in FinalBodies : VoteRequest(user, body)
    \/ \E r \in BagToSet(req) : VoteInsert(r)
    \/ \E user \in UserIds \cup {NoUser}, id \in DOMAIN elections : ResultsRequest(user, id)

SpecFinal == InitFinal /\ [][NextFinal]_vars

\* the rows of a results response, whatever their order
RowSet(r) == { r.rows[k] : k \in DOMAIN r.rows }

\* C23: once the endDate of an election has passed its tally never changes:
\* two results queries made after the end return the same rows and counts,
\* whatever vote submissions arrive in between.
TallyFinalAfterEnd ==
    [][ ( /\ resp.kind = "results"
          /\ resp'.kind = "results"
          /\ resp'.electionId = resp.electionId
          /\ elections[resp.electionId].endDate <= now )
        => RowSet(resp') = RowSet(resp) ]_vars

(* --------------------------- the ballot's voter ------------------------- *)

\* C24: the voter of every stored ballot is the user of the session that
\* submitted it, whatever voterId the body carried: the data a request works
\* with has the session user as voter, the ballot a 201 stores has it too,
\* and a request is answered 400 only for a ballot of its own session user.
BallotVoterIsSession ==
    [][ \A r \in BagToSet(req') :
          (CopiesIn(r, req') > CopiesIn(r, req) /\ r.voteData # NoData)
            => /\ r.voteData.voterId = r.session
               /\ r.status = 201
                    => /\ Len(votes') = Len(votes) + 1
                       /\ votes'[Len(votes')].voterId = r.session
               /\ r.status = 400
                    => \E i \in DOMAIN votes :
                          /\ votes[i].voterId = r.session
                          /\ votes[i].electionId = r.voteData.electionId
                          /\ votes[i].positionId = r.voteData.positionId ]_vars

\* C24 witness: u1 and u2 each submitted a vote for the same position of the
\* same election, both were answered 201 and each ballot has the voter of
\* its session.
BallotVoterIsSessionWitness ==
    /\ Len(votes) = 2
    /\ votes[1].voterId # votes[2].voterId
    /\ votes[1].electionId = votes[2].electionId
    /\ votes[1].positionId = votes[2].positionId
    /\ \A i \in DOMAIN votes :
          \E r \in BagToSet(req) : /\ r.status = 201
                                   /\ r.session = votes[i].voterId
                                   /\ r.voteData.voterId = votes[i].voterId

\* C25: the position of every stored ballot belongs to the club of the
\* ballot's election; a submission naming a position of another club is
\* not recorded.
BallotPositionInElectionClub ==
    \A i \in DOMAIN votes :
        positions[votes[i].positionId].clubId = elections[votes[i].electionId].clubId

(* --------------------------- the caller's userVotes --------------------- *)

\* C26: the userVotes a caller receives from GET /api/elections/active depend
\* only on the caller's own ballots: for a caller with a session userVotes[p]
\* says, for every position p of the election's club, whether a ballot of
\* that caller for that election and position is stored; a caller without a
\* session receives an empty userVotes for every election.
UserVotesOwnBallots ==
    [][ (ReadStep /\ resp'.kind = "active") =>
          \A e \in DOMAIN resp'.active :
             IF resp'.user = NoUser
               THEN DOMAIN resp'.active[e].userVotes = {}
               ELSE /\ DOMAIN resp'.active[e].userVotes = ClubPositions(e)
                    /\ \A p \in ClubPositions(e) :
                         resp'.active[e].userVotes[p]
                           <=> \E i \in DOMAIN votes : /\ votes[i].voterId = resp'.user
                                                       /\ votes[i].electionId = e
                                                       /\ votes[i].positionId = p ]_vars

\* C26 witness: u1 was shown election 1 with userVotes true for a position
\* u1 voted for and false for a position only u2 voted for.
UserVotesOwnBallotsWitness ==
    /\ resp.kind = "active"
    /\ resp.user = "u1"
    /\ 1 \in DOMAIN resp.active
    /\ \E p, q \in DOMAIN resp.active[1].userVotes :
          /\ resp.active[1].userVotes[p]
          /\ ~resp.active[1].userVotes[q]
          /\ \E i \in DOMAIN votes : /\ votes[i].voterId = "u2"
                                     /\ votes[i].electionId = 1
                                     /\ votes[i].positionId = q

(* --------------------------- the voting dialog -------------------------- *)

\* the positions the dialog of election e shows: the positions of the
\* candidates GET /api/elections/:id/candidates returned
DialogPositions(e) == { candidates[c].positionId : c \in GetCandidatesByElection(e) }

\* what the radio groups of the dialog can hold: for some of the shown
\* positions, one of the position's listed candidates
DialogSelections(e) ==
    UNION { { sel \in [ps -> GetCandidatesByElection(e)] :
                \A q \in ps : candidates[sel[q]].positionId = q } :
            ps \in SUBSET DialogPositions(e) }

\* handleVoteSubmission: one vote for each shown position that has a
\* selected candidate, and nothing is sent unless every shown position has
\* one
HandleVoteSubmission(e, selectedCandidates) ==
    LET dialogVotes == { [voterId |-> NoUser, candidateId |-> selectedCandidates[q],
                          electionId |-> e, positionId |-> q] :
                         q \in DialogPositions(e) \cap DOMAIN selectedCandidates }
    IN  IF Cardinality(dialogVotes) # Cardinality(DialogPositions(e)) THEN {} ELSE dialogVotes

\* one of the POST /api/vote requests of a submitted dialog arrives at the
\* server: the Vote button of the election is enabled while the status shown
\* is not Completed
DialogVote(user, e, selectedCandidates) ==
    /\ e \in GetActiveElections
    /\ CompletionStatus(user, e) # "Completed"
    /\ \E voteData \in HandleVoteSubmission(e, selectedCandidates) :
          VoteRequest(user, voteData)

\* candidates approved for election 1
DialogCandidateBodies ==
    { c \in CandidateBodies : c.userId = "u2" /\ c.electionId = 1 /\ c.isApproved }

NextDialog ==
    \/ \E user \in UserIds, e \in DOMAIN elections :
          \E selectedCandidates \in DialogSelections(e) : DialogVote(user, e, selectedCandidates)
    \/ \E r \in BagToSet(req) : VoteInsert(r)
    \/ \E insertCandidate \in DialogCandidateBodies : CreateCandidate(insertCandidate)
    \/ \E user \in UserIds : ActiveElectionsRequest(user)

SpecDialog == InitView /\ [][NextDialog]_vars

\* C27: a voter who, through the dialog of a live election, submitted a vote
\* for every position the dialog shows and had every one of them accepted is
\* shown Completed for that election, also when the club has a position
\* with no approved candidate in the election.
DialogCompletes ==
    \A user \in UserIds, e \in GetActiveElections :
        ( /\ DialogPositions(e) # {}
          /\ \A q \in DialogPositions(e) :
                \E r \in BagToSet(req) : /\ r.session = user
                                         /\ r.status = 201
                                         /\ r.voteData.electionId = e
                                         /\ r.voteData.positionId = q )
        => CompletionStatus(user, e) = "Completed"

(* ------------------------------ the chatbot ----------------------------- *)

\* longest message, in words
MaxWords == 3

\* A text is the sequence of its words, which single blanks separate; the
\* word " " stands for more white space.  The words of the messages tried:
\* words of the response keys, one with an upper-case letter, one that holds
\* the fragment "hi" of the greeting pattern, and one no pattern knows.
Words == {"how", "How", "to", "vote", "candidate", "registration", "result", "this", "xyz", " "}

Messages == UNION { [1..k -> Words] : k \in 0..MaxWords }

\* String.prototype.toLowerCase
ToLowerCase(message) ==
    [ i \in DOMAIN message |->
        CASE message[i] = "How" -> "how"
          [] message[i] = "I"   -> "i"
          [] OTHER              -> message[i] ]

RECURSIVE TrimStart(_)
TrimStart(message) ==
    IF message # << >> /\ Head(message) = " " THEN TrimStart(Tail(message)) ELSE message

RECURSIVE TrimEnd(_)
TrimEnd(message) ==
    IF message # << >> /\ message[Len(message)] = " "
      THEN TrimEnd(SubSeq(message, 1, Len(message) - 1))
      ELSE message

\* String.prototype.trim
Trim(message) == TrimEnd(TrimStart(message))

\* the keys of this.responses
Keys == {"how to vote", "active elections", "voting eligibility", "election results", "candidate registration", "security measures", "technical issues", "election timeline"}

\* the words of a key
KeyWords ==
    [ key \in Keys |->
        CASE key = "how to vote" -> << "how", "to", "vote" >>
          [] key = "active elections" -> << "active", "elections" >>
          [] key = "voting eligibility" -> << "voting", "eligibility" >>
          [] key = "election results" -> << "election", "results" >>
          [] key = "candidate registration" -> << "candidate", "registration" >>
          [] key = "security measures" -> << "security", "measures" >>
          [] key = "technical issues" -> << "technical", "issues" >>
          [] key = "election timeline" -> << "election", "timeline" >> ]

\* initializeResponses
responses ==
    [ key \in Keys |->
        CASE key = "how to vote" ->
               [response |-> "To vote in VoteEd: 1) Log in to your account, 2) View active elections on your dashboard, 3) Click 'Vote Now' on any election, 4) Select candidates for each position, 5) Submit your votes. You can only vote once per position per election.",
                suggestions |-> << "What elections are active?", "Can I change my vote?", "Who can vote?" >>]
          [] key = "active elections" ->
               [response |-> "You can view all active elections on your dashboard. Active elections are shown with their end dates and voting status. Elections remain active until their end date passes.",
                suggestions |-> << "How to vote", "Election results", "Candidate information" >>]
          [] key = "voting eligibility" ->
               [response |-> "All registered students can vote in elections. You need to create an account with your college email to participate. Admin users can manage elections but also vote as students.",
                suggestions |-> << "How to register", "Student verification", "Role differences" >>]
          [] key = "election results" ->
               [response |-> "Election results are automatically calculated when elections end. Admins can view real-time results during elections. Final results are published after the election end date.",
                suggestions |-> << "Live vote counts", "Result publication", "Winner declaration" >>]
          [] key = "candidate registration" ->
               [response |-> "Students can register as candidates for specific positions. Candidate registration requires admin approval. Once approved, candidates appear on voting ballots for their registered positions.",
                suggestions |-> << "How to become candidate", "Candidate approval", "Campaign guidelines" >>]
          [] key = "security measures" ->
               [response |-> "VoteEd ensures vote security through: encrypted data storage, anonymous voting (votes not linked to voter identity), session-based authentication, one vote per person per position, and tamper-proof vote recording.",
                suggestions |-> << "Vote privacy", "Data protection", "Authentication methods" >>]
          [] key = "technical issues" ->
               [response |-> "If you experience technical issues: 1) Refresh your browser, 2) Clear browser cache, 3) Try a different browser, 4) Check your internet connection, 5) Contact system administrators if problems persist.",
                suggestions |-> << "Login problems", "Voting errors", "Browser compatibility" >>]
          [] key = "election timeline" ->
               [response |-> "Elections have specific start and end dates set by administrators. You can only vote during the active election period. Check the dashboard for election deadlines and plan accordingly.",
                suggestions |-> << "Election schedule", "Voting deadline", "Important dates" >>] ]

\* the fragments of the patterns that occur in a word of a message
Fragments(word) ==
    CASE word = "how"       -> {"how"}
      [] word = "vote"      -> {"vote"}
      [] word = "vote?"     -> {"vote"}
      [] word = "candidate" -> {"candidate", "date"}
      [] word = "result"    -> {"result"}
      [] word = "this"      -> {"hi"}
      [] word = "thanks"    -> {"thank", "thanks"}
      [] OTHER              -> {}

\* initializePatterns: a pattern is the set of its alternatives, and an
\* alternative a.*b is the sequence of its fragments; /i has no effect on a
\* lower-cased message and the patterns carry no g flag, so test keeps no
\* lastIndex
patterns ==
    << [pattern  |-> { <<"how", "vote">>, <<"voting", "process">>, <<"cast", "vote">> },
        response |-> "how to vote", suggestions |-> << >>],
       [pattern  |-> { <<"active", "election">>, <<"current", "election">>, <<"ongoing", "election">> },
        response |-> "active elections", suggestions |-> << >>],
       [pattern  |-> { <<"who", "vote">>, <<"eligibility">>, <<"qualified", "vote">> },
        response |-> "voting eligibility", suggestions |-> << >>],
       [pattern  |-> { <<"result">>, <<"winner">>, <<"outcome">>, <<"who", "won">> },
        response |-> "election results", suggestions |-> << >>],
       [pattern  |-> { <<"candidate", "register">>, <<"become", "candidate">>, <<"run", "election">> },
        response |-> "candidate registration", suggestions |-> << >>],
       [pattern  |-> { <<"secure">>, <<"security">>, <<"safe">>, <<"privacy">>, <<"anonymous">> },
        response |-> "security measures", suggestions |-> << >>],
       [pattern  |-> { <<"problem">>, <<"error">>, <<"issue">>, <<"not", "work">>, <<"technical">> },
        response |-> "technical issues", suggestions |-> << >>],
       [pattern  |-> { <<"when", "election">>, <<"deadline">>, <<"schedule">>, <<"timeline">>, <<"end", "date">> },
        response |-> "election timeline", suggestions |-> << >>],
       [pattern  |-> { <<"hello">>, <<"hi">>, <<"hey">>, <<"good", "morning">>, <<"good", "afternoon">>,
                       <<"good", "evening">> },
        response |-> "Hello! I'm your VoteEd assistant. I can help you with questions about voting, elections, candidates, and system features. What would you like to know?",
        suggestions |-> << "How to vote", "Active elections", "Security measures" >>],
       [pattern  |-> { <<"help">>, <<"assist">>, <<"support">>, <<"what", "you", "do">> },
        response |-> "I can help you with: voting procedures, election information, candidate details, security features, technical support, and general questions about the VoteEd system. What specific topic interests you?",
        suggestions |-> << "Voting process", "Election results", "Technical issues" >>],
       [pattern  |-> { <<"thank">>, <<"thanks">>, <<"appreciate">> },
        response |-> "You're welcome! Feel free to ask if you have any other questions about the voting system. Happy voting!",
        suggestions |-> << >>] >>

\* the fragments of an alternative occur in this order in the words from
\* word i on; no word of a message holds two fragments of one alternative
RECURSIVE AlternativeMatches(_, _, _)
AlternativeMatches(alternative, message, i) ==
    \/ alternative = << >>
    \/ \E j \in i..Len(message) :
          /\ Head(alternative) \in Fragments(message[j])
          /\ AlternativeMatches(Tail(alternative), message, j + 1)

\* pattern.test(normalizedMessage)
Test(pattern, message) ==
    \E alternative \in pattern : AlternativeMatches(alternative, message, 1)

\* the default response
DefaultResponse ==
    [response |-> "I'm here to help with voting and election questions. Could you please rephrase your question or try asking about: voting procedures, active elections, candidate information, or technical support?",
     suggestions |-> << "How to vote", "Active elections", "Security measures", "Technical help" >>]

\* what pattern k returns: the response stored under its key, or its own
\* text and suggestions
PatternResponse(k) ==
    IF patterns[k].response \in Keys
      THEN responses[patterns[k].response]
      ELSE [response |-> patterns[k].response, suggestions |-> patterns[k].suggestions]

\* the for loop over this.patterns from pattern k on, then the default
RECURSIVE ScanPatterns(_, _)
ScanPatterns(normalizedMessage, k) ==
    IF k > Len(patterns) THEN DefaultResponse
    ELSE IF Test(patterns[k].pattern, normalizedMessage) THEN PatternResponse(k)
    ELSE ScanPatterns(normalizedMessage, k + 1)

\* processMessage without the look-up of exact matches
ProcessMessage_patternsOnly(message) ==
    ScanPatterns(Trim(ToLowerCase(message)), 1)

\* VotingChatbot.processMessage
ProcessMessage(message) ==
    LET normalizedMessage == Trim(ToLowerCase(message)) IN
    IF \E key \in Keys : KeyWords[key] = normalizedMessage
      THEN responses[CHOOSE key \in Keys : KeyWords[key] = normalizedMessage]
      ELSE ScanPatterns(normalizedMessage, 1)

\* bodies of POST /api/chat: a message, or no message field
ChatBodies == { [message |-> m] : m \in Messages } \cup { [text |-> << >>] }

\* POST /api/chat for a request r of the bag, which reads no session: 400
\* without a message or with the empty string
ChatRequest(r) ==
    /\ BagIn(r, req)
    /\ req' = req (-) SetToBag({r})
    /\ IF "message" \notin DOMAIN r.body \/ r.body.message = << >>
         THEN resp' = [kind |-> "error", status |-> 400, user |-> NoUser]
         ELSE resp' = [kind |-> "chat", status |-> 200, user |-> NoUser,
                       message |-> r.body.message, reply |-> ProcessMessage(r.body.message)]
    /\ UNCHANGED <<now, tables, votes, widget>>

\* a message sent by every behaviour, before or after the drawn one
OtherMessage == << "thanks" >>

\* two chat requests are on their way: a drawn body and OtherMessage
InitChat ==
    /\ now = 0
    /\ clubs = SeedClubs
    /\ positions = SeedPositions
    /\ elections = SeedElections
    /\ candidates = SeedCandidates
    /\ votes = << >>
    /\ req \in { SetToBag({[body |-> body], [body |-> [message |-> OtherMessage]]}) :
                  body \in ChatBodies }
    /\ resp = NoResp
    /\ widget = NewWidget

NextChat ==
    \E r \in BagToSet(req) : ChatRequest(r)

SpecChat == InitChat /\ [][NextChat]_vars

\* the lower-cased, trimmed message is the key
IsKey(key, message) == KeyWords[key] = Trim(ToLowerCase(message))

\* pattern k matches the lower-cased, trimmed message
PatternMatches(k, message) == Test(patterns[k].pattern, Trim(ToLowerCase(message)))

\* C28: processMessage returns a non-empty response for every message, by
\* fixed precedence: the response of the key the lower-cased, trimmed message
\* equals; otherwise the response of the first pattern in table order that
\* matches, whatever later patterns match; otherwise the default response.
\* The reply is a function of the message alone.
ChatPrecedence ==
    (resp.kind = "chat") =>
        /\ resp.reply.response # ""
        /\ \A key \in Keys : IsKey(key, resp.message) => resp.reply = responses[key]
        /\ (\A key \in Keys : ~IsKey(key, resp.message)) =>
              /\ \A k \in DOMAIN patterns :
                    ( /\ PatternMatches(k, resp.message)
                      /\ \A j \in 1..(k - 1) : ~PatternMatches(j, resp.message) )
                    => resp.reply = PatternResponse(k)
              /\ (\A k \in DOMAIN patterns : ~PatternMatches(k, resp.message))
                    => resp.reply = DefaultResponse

\* C28 witness: the message "  candidate registration", which no pattern
\* matches, was answered with the response of the key it equals once
\* trimmed.
ChatPrecedenceWitness ==
    /\ resp.kind = "chat"
    /\ resp.message = << " ", "candidate", "registration" >>
    /\ \A k \in DOMAIN patterns : ~PatternMatches(k, resp.message)
    /\ resp.reply = responses["candidate registration"]

(* ---------------------------- the chat widget --------------------------- *)

\* most chat requests and most running timers of one widget
MaxChat == 2

\* what the user types into the input field: nothing, white space, a text
InputTexts == { << >>, << " " >>, << "xyz" >> }

\* the chips the user clicks, one of the welcome message and one of the
\* default response, and the text of a chip as words
ClickedSuggestions == {"How do I vote?", "How to vote"}

SuggestionText(suggestion) ==
    CASE suggestion = "How to vote" -> << "How", "to", "vote" >>
      [] suggestion = "How do I vote?" -> << "How", "do", "I", "vote?" >>
      [] OTHER -> << suggestion >>

\* getWelcomeMessage
GetWelcomeMessage ==
    [response |-> "Welcome to VoteEd! I'm your voting assistant. I can help you with voting procedures, election information, candidate details, and answer any questions about our secure voting system. How can I assist you today?",
     suggestions |-> << "How do I vote?", "What elections are active?", "Is voting secure?", "Technical support" >>]

\* a message of the bot in the list, from a response of the server
BotMessage(response) ==
    [message |-> << response.response >>, isUser |-> FALSE, suggestions |-> response.suggestions]

\* chatMutation.isPending: the input field and the send button are disabled
IsPending == widget.pending # {}

\* the effect that sets the welcome message once it has arrived and the list
\* is still empty
WelcomeMessage ==
    /\ widget.messages = << >>
    /\ widget' = [widget EXCEPT !.messages = << BotMessage(GetWelcomeMessage) >>]
    /\ UNCHANGED <<now, tables, votes, req, resp>>

\* onChange of the input field
TypeMessage(text) ==
    /\ ~IsPending
    /\ widget' = [widget EXCEPT !.inputMessage = text]
    /\ UNCHANGED <<now, tables, votes, req, resp>>

\* handleSendMessage of the render in which the input field held
\* inputMessage, run on the widget w
HandleSendMessage(w, inputMessage) ==
    IF Trim(inputMessage) = << >>
      THEN w
      ELSE [w EXCEPT !.messages = Append(@, [message |-> inputMessage, isUser |-> TRUE,
                                                suggestions |-> << >>]),
                     !.sent = Append(@, inputMessage),
                     !.pending = @ \cup {Len(w.sent) + 1},
                     !.inputMessage = << >>]

\* the send button, or Enter in the input field
SendClick ==
    /\ ~IsPending
    /\ Len(widget.sent) + Len(widget.timers) < MaxChat
    /\ widget' = HandleSendMessage(widget, widget.inputMessage)
    /\ UNCHANGED <<now, tables, votes, req, resp>>

\* handleSuggestionClick on a chip that a message of the list shows: the timer
\* holds the handleSendMessage of the render of the click, which reads that
\* render's inputMessage
SuggestionClick(suggestion) ==
    /\ \E i \in DOMAIN widget.messages :
          \E j \in DOMAIN widget.messages[i].suggestions :
              widget.messages[i].suggestions[j] = suggestion
    /\ Len(widget.sent) + Len(widget.timers) < MaxChat
    /\ widget' = [widget EXCEPT
                    !.inputMessage = SuggestionText(suggestion),
                    !.timers = Append(@, [suggestion |-> suggestion,
                                          inputMessage |-> widget.inputMessage])]
    /\ UNCHANGED <<now, tables, votes, req, resp>>

\* the 100 ms have passed: the oldest timer runs its handleSendMessage
TimerFires ==
    /\ widget.timers # << >>
    /\ widget' = HandleSendMessage([widget EXCEPT !.timers = Tail(@)],
                                   Head(widget.timers).inputMessage)
    /\ UNCHANGED <<now, tables, votes, req, resp>>

\* onSuccess of chatMutation: the server's answer to request i arrives
ChatReply(i) ==
    /\ i \in widget.pending
    /\ widget' = [widget EXCEPT
                    !.messages = Append(@, BotMessage(ProcessMessage(widget.sent[i]))),
                    !.pending = @ \ {i}]
    /\ UNCHANGED <<now, tables, votes, req, resp>>

NextWidget ==
    \/ WelcomeMessage
    \/ \E text \in InputTexts : TypeMessage(text)
    \/ SendClick
    \/ \E suggestion \in ClickedSuggestions : SuggestionClick(suggestion)
    \/ TimerFires
    \/ \E i \in 1..MaxChat : ChatReply(i)

SpecWidget == InitAdmin /\ [][NextWidget]_vars

\* C29: when the timer of a click on a suggestion chip runs, the text of the
\* chip is appended as a user message and one chat request with that text is
\* sent, whatever the input field held at the click.
SuggestionSendsItsText ==
    [][ Len(widget'.timers) < Len(widget.timers) =>
          LET text == SuggestionText(Head(widget.timers).suggestion) IN
            /\ widget'.sent = Append(widget.sent, text)
            /\ widget'.messages = Append(widget.messages,
                                         [message |-> text, isUser |-> TRUE,
                                          suggestions |-> << >>]) ]_vars

====
